---------------------------- MODULE Spec2Model ----------------------------
(***************************************************************************)
(* Health-check HTTP filter (source/extensions/filters/http/health_check). *)
(*                                                                         *)
(* One HealthCheckFilter instance exists per request slot; all instances   *)
(* share the filter configuration, the optional HealthCheckCacheManager,   *)
(* the process-wide forced-failure flag and the cluster registry.  Every   *)
(* hook runs to completion on the single event loop, so every hook is one  *)
(* atomic action; the cache timer is one more action of the same loop.     *)
(***************************************************************************)
EXTENDS Integers, Sequences, FiniteSets, TLC

\* ------------------------------------------------------------------ bounds

\* Number of requests (filter instances) that may be in flight at once.
MaxInFlight == 2
\* Largest cluster membership_total_ explored.
MaxMembers == 2
\* Most onComplete calls recorded for one request (one contract violation).
MaxCompletions == 2

Requests == 1 .. MaxInFlight

\* --------------------------------------------------------- program values

OK == 200
ServiceUnavailable == 503
\* Http::Code{}: the value of last_response_code_ before any verdict is stored.
NoCode == 0
\* Status codes the real upstream may answer a forwarded probe with.
UpstreamCodes == {200, 204, 503}

ClusterNames == {"a", "b"}
\* Minimum healthy percentages used in configurations.
MinPercentages == {0, 50, 100}

VARIABLES
    pass_through_mode_,                 \* HealthCheckFilter::pass_through_mode_
    cache_manager_,                     \* TRUE iff cache_manager_ is non-null
    cache,                              \* the HealthCheckCacheManager's fields
    cluster_min_healthy_percentages_,   \* ordered <<name, percentage>> pairs
    clusters,                           \* cluster registry: name -> stats
    healthCheckFailed,                  \* context_.healthCheckFailed()
    filters,                            \* per-request HealthCheckFilter state
    out,                                \* what the last hook call returned/sent
    win                                 \* history of the current validity window

vars == <<pass_through_mode_, cache_manager_, cache, cluster_min_healthy_percentages_,
          clusters, healthCheckFailed, filters, out, win>>

config == <<pass_through_mode_, cache_manager_, cluster_min_healthy_percentages_, clusters>>

\* ------------------------------------------------------------ data shapes

NoHeaders == [status |-> NoCode, degraded |-> FALSE, cluster |-> FALSE, immediateFail |-> FALSE]

\* onComplete, line 151: the body text handed to sendLocalReply.
LocalReplyBody == ""

\* `flagged`: FailedLocalHealthCheck was set on the stream info when
\* sendLocalReply was called.
NoReply == [sent |-> FALSE, code |-> NoCode, degraded |-> FALSE, lookups |-> 0,
            body |-> "none", flagged |-> FALSE]

\* `ret` is what the hook returned; `enc` is what this filter's encodeHeaders
\* returned when the hook's local reply was encoded inside it.
NoOut == [hook |-> "none", r |-> 0, end_stream |-> FALSE, ret |-> "none", enc |-> "none",
          reply |-> NoReply, hin |-> NoHeaders, hout |-> NoHeaders]

\* History of the current validity window: `open` once a forwarded probe's
\* upstream response has been stored since the last timer fire, with the first
\* such verdict; `fired` from the timer fire that closes an open window until
\* the next matched probe's headers are decoded.
NoWin == [open |-> FALSE, code |-> NoCode, degraded |-> FALSE, fired |-> FALSE]

\* A filter instance right after construction (and a free request slot).
\* `fresh_at_decode` records what useCachedResponse() returned, or would have
\* returned, in decodeHeaders of a matched probe.
NewFilter == [pc |-> "idle", matches |-> FALSE, health_check_request_ |-> FALSE,
              handling_ |-> FALSE, completed |-> 0, response_flag |-> FALSE,
              fresh_at_decode |-> FALSE]

\* Headers of a response produced by the real upstream: any of its status
\* codes, and the degraded marker on some of the healthy answers.
UpstreamHeaders == {h \in [status : UpstreamCodes, degraded : BOOLEAN,
                           cluster : {FALSE}, immediateFail : {FALSE}] :
                       h.degraded => h.status = OK}


\* One registry entry: clusterManager.get(name) and the membership gauges read
\* from cluster->info()->stats().
ClusterStats == {[exists |-> FALSE, membership_total_ |-> 0,
                  membership_healthy_ |-> 0, membership_degraded_ |-> 0]}
                \cup
                {s \in [exists : {TRUE}, membership_total_ : 0 .. MaxMembers,
                        membership_healthy_ : 0 .. MaxMembers,
                        membership_degraded_ : 0 .. MaxMembers] :
                     s.membership_healthy_ + s.membership_degraded_ <= s.membership_total_}

\* Threshold lists: the configuration is a map, so no cluster is named twice.
ThresholdLists == {<<>>}
                  \cup {<<<<c, p>>>> : c \in ClusterNames, p \in MinPercentages}
                  \cup {<<<<c, p>>, <<d, q>>>> :
                          c \in ClusterNames, d \in ClusterNames, p \in MinPercentages,
                          q \in MinPercentages}

DistinctNames(ths) == \A i, j \in 1 .. Len(ths) : ths[i][1] = ths[j][1] => i = j

\* ------------------------------------------------ HealthCheckCacheManager

\* State right after the constructor: onTimer() has run once.
NewCacheManager == [use_cached_response_ |-> FALSE, last_response_code_ |-> NoCode,
                    last_response_degraded_ |-> FALSE, timer_enabled |-> TRUE]

\* Placeholder value of `cache` when no cache manager is configured.
NullCacheManager == [use_cached_response_ |-> FALSE, last_response_code_ |-> NoCode,
                     last_response_degraded_ |-> FALSE, timer_enabled |-> FALSE]

\* "should use cache": the verdict is fresh and a verdict has been stored.
useCachedResponse(c) == c.use_cached_response_ /\ c.last_response_code_ # NoCode

\* The last stored verdict, whatever its freshness.
getCachedResponse(c) == [code |-> c.last_response_code_, degraded |-> c.last_response_degraded_]

\* Stores the verdict and makes it usable until the next timer expiry.
setCachedResponse(c, code, degraded) ==
    [c EXCEPT !.last_response_code_ = code,
              !.last_response_degraded_ = degraded,
              !.use_cached_response_ = TRUE]

\* Mutant: the timer is one-shot, a fire does not enable it again.
onTimer_OneShot(c) == [c EXCEPT !.use_cached_response_ = FALSE, !.timer_enabled = FALSE]

\* Mutant: the timer re-arms itself but leaves the verdict usable.
onTimer_KeepsFresh(c) == [c EXCEPT !.timer_enabled = TRUE]

\* HealthCheckCacheManager::onTimer on the manager's fields.
onTimer(c) == [c EXCEPT !.use_cached_response_ = FALSE, !.timer_enabled = TRUE]

\* ------------------------------------------------------ pure code helpers

\* Mutant: 200 itself does not count as a 2xx.
is2xx_Above200(code) == code > 200 /\ code < 300

\* Http::CodeUtility::is2xx
is2xx(code) == code >= 200 /\ code < 300

\* Mutant: a configured cache is used whether or not it should be.
ShouldHandle_AnyCache(pass_through, failed, has_cache, c) ==
    ~pass_through \/ failed \/ has_cache

\* decodeHeaders, lines 49-50: whether a matched probe is handled locally.
ShouldHandle(pass_through, failed, has_cache, c) ==
    ~pass_through \/ failed \/ (has_cache /\ useCachedResponse(c))

\* Mutant: the handling decision is taken outside the match branch.
DecodedFilter_HandlesUnmatched(f, m, should_handle, end_stream) ==
    [f EXCEPT !.pc = IF end_stream THEN "ended" ELSE "open",
              !.matches = m,
              !.health_check_request_ = @ \/ m,
              !.handling_ = @ \/ should_handle]

\* decodeHeaders, lines 37-53: the filter's fields after the hook, on headers
\* that match the health-check predicate iff m.
DecodedFilter(f, m, should_handle, end_stream) ==
    [f EXCEPT !.pc = IF end_stream THEN "ended" ELSE "open",
              !.matches = m,
              !.health_check_request_ = @ \/ m,
              !.handling_ = @ \/ (m /\ should_handle)]

\* Return values of the three decode hooks.
DecodeHeadersStatus(handling) == IF handling THEN "StopIteration" ELSE "Continue"

\* Mutant: the body of a handled request is buffered.
DecodeDataStatus_Buffers(handling) == IF handling THEN "StopIterationAndBuffer" ELSE "Continue"

DecodeDataStatus(handling) == IF handling THEN "StopIterationNoBuffer" ELSE "Continue"

DecodeTrailersStatus(handling) == IF handling THEN "StopIteration" ELSE "Continue"

\* encodeHeaders, line 94.
EncodeHeadersStatus == "Continue"

\* Whether each decode hook calls onComplete().
HeadersComplete(end_stream, handling) == end_stream /\ handling

\* Mutant: every body chunk of a handled request completes it.
DataComplete_EveryChunk(end_stream, handling) == handling

DataComplete(end_stream, handling) == end_stream /\ handling

TrailersComplete(handling) == handling

\* Mutant: exactly the minimum percentage counts as too few.
BelowMinimum_Inclusive(stats, min_healthy_percentage) ==
    (stats.membership_healthy_ + stats.membership_degraded_) * 100
        <= stats.membership_total_ * min_healthy_percentage

\* onComplete, lines 138-139: fewer than the minimum percentage available.
\* The double comparison (h + d) < total * min / 100.0 on these integer values.
BelowMinimum(stats, min_healthy_percentage) ==
    (stats.membership_healthy_ + stats.membership_degraded_) * 100
        < stats.membership_total_ * min_healthy_percentage

\* Mutant: a missing cluster is reported as an internal server error.
RECURSIVE EvalFrom_Missing500(_, _, _)
EvalFrom_Missing500(ths, reg, i) ==
    IF i > Len(ths) THEN [code |-> OK, examined |-> Len(ths)]
    ELSE IF ~reg[ths[i][1]].exists
    THEN [code |-> 500, examined |-> i]
    ELSE IF reg[ths[i][1]].membership_total_ = 0
    THEN IF ths[i][2] = 0
         THEN EvalFrom_Missing500(ths, reg, i + 1)
         ELSE [code |-> ServiceUnavailable, examined |-> i]
    ELSE IF BelowMinimum(reg[ths[i][1]], ths[i][2])
    THEN [code |-> ServiceUnavailable, examined |-> i]
    ELSE EvalFrom_Missing500(ths, reg, i + 1)

\* onComplete, lines 113-143: the loop over the thresholds from index i on.
\* `examined` counts the thresholds looked at before the loop ended.
RECURSIVE EvalFrom(_, _, _)
EvalFrom(ths, reg, i) ==
    IF i > Len(ths) THEN [code |-> OK, examined |-> Len(ths)]
    ELSE LET cluster_name == ths[i][1]
             min_healthy_percentage == ths[i][2]
             cluster == reg[cluster_name]
         IN  IF ~cluster.exists
             THEN [code |-> ServiceUnavailable, examined |-> i]
             ELSE IF cluster.membership_total_ = 0
             THEN IF min_healthy_percentage = 0
                  THEN EvalFrom(ths, reg, i + 1)
                  ELSE [code |-> ServiceUnavailable, examined |-> i]
             ELSE IF BelowMinimum(cluster, min_healthy_percentage)
             THEN [code |-> ServiceUnavailable, examined |-> i]
             ELSE EvalFrom(ths, reg, i + 1)

\* Mutant: the cache is consulted before the forced-failure flag.
FinalVerdict_CacheFirst(failed, has_cache, c, ths, reg) ==
    IF has_cache
    THEN [code |-> getCachedResponse(c).code, degraded |-> getCachedResponse(c).degraded,
          lookups |-> 0]
    ELSE IF failed
    THEN [code |-> ServiceUnavailable, degraded |-> FALSE, lookups |-> 0]
    ELSE IF Len(ths) > 0
    THEN [code |-> EvalFrom(ths, reg, 1).code, degraded |-> FALSE,
          lookups |-> EvalFrom(ths, reg, 1).examined]
    ELSE [code |-> OK, degraded |-> FALSE, lookups |-> 0]

\* onComplete, lines 99-144: final_status and degraded.
FinalVerdict(failed, has_cache, c, ths, reg) ==
    IF failed
    THEN [code |-> ServiceUnavailable, degraded |-> FALSE, lookups |-> 0]
    ELSE IF has_cache
    THEN [code |-> getCachedResponse(c).code, degraded |-> getCachedResponse(c).degraded,
          lookups |-> 0]
    ELSE IF Len(ths) > 0
    THEN [code |-> EvalFrom(ths, reg, 1).code, degraded |-> FALSE,
          lookups |-> EvalFrom(ths, reg, 1).examined]
    ELSE [code |-> OK, degraded |-> FALSE, lookups |-> 0]

\* Mutant: only the forced-failure branch sets the flag.
SetsResponseFlag_OnlyForced(failed, code) == failed

\* onComplete, lines 101-102 and 146-148: FailedLocalHealthCheck is set.
SetsResponseFlag(failed, code) == failed \/ ~is2xx(code)

\* onComplete, lines 101-151: the stream's response flag at the call of
\* sendLocalReply, which comes after both setResponseFlag calls.
FlagAtSend(flag_before, failed, code) == flag_before \/ SetsResponseFlag(failed, code)

\* Mutant: the reply's header callback never inserts the degraded marker.
LocalReplyHeaders_NoDegraded(v) ==
    [status |-> v.code, degraded |-> FALSE, cluster |-> FALSE, immediateFail |-> FALSE]

\* onComplete, lines 151-157: the headers of the local reply.
LocalReplyHeaders(v) ==
    [status |-> v.code, degraded |-> v.degraded, cluster |-> FALSE, immediateFail |-> FALSE]

\* Mutant: the cluster header is added to every response.
EncodedHeaders_AlwaysCluster(health_check_request, failed, headers) ==
    IF failed /\ ~health_check_request
    THEN [headers EXCEPT !.cluster = TRUE, !.immediateFail = TRUE]
    ELSE [headers EXCEPT !.cluster = TRUE]

\* Mutant: the immediate-failure branch is not an else branch.
EncodedHeaders_FailOnProbes(health_check_request, failed, headers) ==
    [headers EXCEPT !.cluster = @ \/ health_check_request,
                    !.immediateFail = @ \/ failed]

\* encodeHeaders, lines 81-92: the response headers after the hook.
EncodedHeaders(health_check_request, failed, headers) ==
    IF health_check_request THEN [headers EXCEPT !.cluster = TRUE]
    ELSE IF failed THEN [headers EXCEPT !.immediateFail = TRUE]
    ELSE headers

\* encodeHeaders, lines 81-86: the cache manager after the hook.
EncodedCache(health_check_request, has_cache, c, headers) ==
    IF health_check_request /\ has_cache
    THEN setCachedResponse(c, headers.status, headers.degraded)
    ELSE c

\* ------------------------------------------------------------------ hooks

\* One decode hook of request r, its filter fields already updated to f: the
\* hook calls onComplete() when `complete`, and returns `ret`.  onComplete
\* asserts handling_, computes the verdict, sets the response flag and sends
\* the local reply; the host encodes the reply's headers through the encoder
\* chain, this filter's encodeHeaders included, before the call returns.
RunHook(r, f, hook, end_stream, complete, ret, w) ==
    LET v     == FinalVerdict(healthCheckFailed, cache_manager_, cache,
                              cluster_min_healthy_percentages_, clusters)
        hin   == LocalReplyHeaders(v)
        sends == complete /\ f.handling_
    IN  /\ filters' = [filters EXCEPT ![r] =
                IF sends
                THEN [f EXCEPT !.pc = "done",
                               !.completed = @ + 1,
                               !.response_flag = FlagAtSend(@, healthCheckFailed, v.code)]
                ELSE f]
        /\ cache' = IF sends
                    THEN EncodedCache(f.health_check_request_, cache_manager_, cache, hin)
                    ELSE cache
        /\ out' = [hook |-> hook, r |-> r, end_stream |-> end_stream,
                   ret |-> IF complete /\ ~f.handling_ THEN "abort" ELSE ret,
                   enc |-> IF sends THEN EncodeHeadersStatus ELSE "none",
                   reply |-> IF sends
                             THEN [sent |-> TRUE, code |-> v.code, degraded |-> v.degraded,
                                   lookups |-> v.lookups, body |-> LocalReplyBody,
                                   flagged |-> FlagAtSend(f.response_flag, healthCheckFailed,
                                                          v.code)]
                             ELSE NoReply,
                   hin |-> IF sends THEN hin ELSE NoHeaders,
                   hout |-> IF sends
                            THEN EncodedHeaders(f.health_check_request_, healthCheckFailed, hin)
                            ELSE NoHeaders]
        /\ win' = w
        /\ UNCHANGED <<config, healthCheckFailed>>

\* HealthCheckFilter::decodeHeaders on a new request whose headers match the
\* health-check predicate iff m.  (In every action, h says whether the window
\* history `win` is kept; it is kept only where a property reads it.)
DecodeHeaders(r, h) ==
    \E m \in BOOLEAN, end_stream \in BOOLEAN :
        /\ filters[r].pc = "idle"
        /\ LET f == [DecodedFilter(filters[r], m,
                                   ShouldHandle(pass_through_mode_, healthCheckFailed,
                                                cache_manager_, cache),
                                   end_stream)
                       EXCEPT !.fresh_at_decode = m /\ cache_manager_
                                                     /\ useCachedResponse(cache)]
           IN  RunHook(r, f, "decodeHeaders", end_stream,
                       HeadersComplete(end_stream, f.handling_),
                       DecodeHeadersStatus(f.handling_),
                       IF h /\ m THEN [win EXCEPT !.fired = FALSE] ELSE win)

\* HealthCheckFilter::decodeData
DecodeData(r) ==
    \E end_stream \in BOOLEAN :
        /\ filters[r].pc = "open"
        /\ LET f == [filters[r] EXCEPT !.pc = IF end_stream THEN "ended" ELSE "open"]
           IN  RunHook(r, f, "decodeData", end_stream,
                       DataComplete(end_stream, f.handling_), DecodeDataStatus(f.handling_),
                       win)

\* HealthCheckFilter::decodeTrailers
DecodeTrailers(r) ==
    /\ filters[r].pc = "open"
    /\ LET f == [filters[r] EXCEPT !.pc = "ended"]
       IN  RunHook(r, f, "decodeTrailers", TRUE,
                   TrailersComplete(f.handling_), DecodeTrailersStatus(f.handling_), win)

\* HealthCheckFilter::encodeHeaders on the real upstream's response to a
\* request that was forwarded.
EncodeHeaders(r, h) ==
    \E headers \in UpstreamHeaders :
        /\ filters[r].pc = "ended"
        /\ ~filters[r].handling_
        /\ filters' = [filters EXCEPT ![r].pc = "done"]
        /\ cache' = EncodedCache(filters[r].health_check_request_, cache_manager_, cache, headers)
        /\ out' = [NoOut EXCEPT !.hook = "encodeHeaders", !.r = r, !.ret = EncodeHeadersStatus,
                                !.hin = headers,
                                !.hout = EncodedHeaders(filters[r].health_check_request_,
                                                        healthCheckFailed, headers)]
        /\ win' = IF h /\ filters[r].health_check_request_ /\ cache_manager_ /\ ~win.open
                  THEN [win EXCEPT !.open = TRUE, !.code = headers.status,
                                   !.degraded = headers.degraded]
                  ELSE win
        /\ UNCHANGED <<config, healthCheckFailed>>

\* The stream ends and its filter instance is destroyed.
Destroy(r) ==
    /\ filters[r].pc = "done"
    /\ filters' = [filters EXCEPT ![r] = NewFilter]
    /\ UNCHANGED <<config, cache, healthCheckFailed, out, win>>

\* The clear-cache timer fires: HealthCheckCacheManager::onTimer
OnTimer(h) ==
    /\ cache_manager_
    /\ cache.timer_enabled
    /\ cache' = onTimer(cache)
    /\ out' = [NoOut EXCEPT !.hook = "onTimer"]
    /\ win' = IF h THEN [NoWin EXCEPT !.fired = win.open \/ win.fired] ELSE win
    /\ UNCHANGED <<config, healthCheckFailed, filters>>

\* The process-wide forced-failure flag is set or cleared.
FailHealthcheck ==
    \E fail \in BOOLEAN :
        /\ healthCheckFailed # fail
        /\ healthCheckFailed' = fail
        /\ out' = [NoOut EXCEPT !.hook = "failHealthcheck"]
        /\ UNCHANGED <<config, cache, filters, win>>

\* A host that breaks the hook order: trailers after end-of-stream.
TrailersAfterEnd(r) ==
    /\ filters[r].pc \in {"ended", "done"}
    /\ filters[r].completed < MaxCompletions
    /\ RunHook(r, filters[r], "decodeTrailers", TRUE,
               TrailersComplete(filters[r].handling_),
               DecodeTrailersStatus(filters[r].handling_), win)

\* ---------------------------------------------------------- specifications

Absent == [exists |-> FALSE, membership_total_ |-> 0,
           membership_healthy_ |-> 0, membership_degraded_ |-> 0]

AllHealthy == [exists |-> TRUE, membership_total_ |-> 1,
               membership_healthy_ |-> 1, membership_degraded_ |-> 0]

EmptyRegistry == [c \in ClusterNames |-> Absent]

\* No thresholds; a threshold on a missing cluster; a threshold that passes.
TypicalClusterConfigs ==
    {<< <<>>, EmptyRegistry >>,
     << <<<<"a", 50>>>>, EmptyRegistry >>,
     << <<<<"a", 50>>>>, [c \in ClusterNames |-> IF c = "a" THEN AllHealthy ELSE Absent] >>}

\* Every threshold list over every registry.
AllClusterConfigs ==
    {cc \in ThresholdLists \X [ClusterNames -> ClusterStats] : DistinctNames(cc[1])}

\* The state after the filter configuration is built.  A configuration has a
\* cache or cluster thresholds, never both.
InitWith(ptms, caches, clusterConfigs) ==
    /\ pass_through_mode_ \in ptms
    /\ cache_manager_ \in caches
    /\ cache = IF cache_manager_ THEN NewCacheManager ELSE NullCacheManager
    /\ \E cc \in clusterConfigs :
          /\ cache_manager_ => cc = << <<>>, EmptyRegistry >>
          /\ cluster_min_healthy_percentages_ = cc[1]
          /\ clusters = cc[2]
    /\ healthCheckFailed = FALSE
    /\ filters = [r \in Requests |-> NewFilter]
    /\ out = NoOut
    /\ win = NoWin

Init == InitWith(BOOLEAN, BOOLEAN, TypicalClusterConfigs)

Next ==
    \/ \E r \in Requests : DecodeHeaders(r, FALSE)
    \/ \E r \in Requests : DecodeData(r)
    \/ \E r \in Requests : DecodeTrailers(r)
    \/ \E r \in Requests : EncodeHeaders(r, FALSE)
    \/ \E r \in Requests : Destroy(r)
    \/ OnTimer(FALSE)
    \/ FailHealthcheck

\* Every configuration, a host that keeps the hook order.
Spec == Init /\ [][Next]_vars

\* A cache, pass-through mode on, and the forced-failure flag never set.
InitWindow == InitWith({TRUE}, {TRUE}, TypicalClusterConfigs)

NextWindow ==
    \/ \E r \in Requests : DecodeHeaders(r, TRUE)
    \/ \E r \in Requests : DecodeData(r)
    \/ \E r \in Requests : DecodeTrailers(r)
    \/ \E r \in Requests : EncodeHeaders(r, TRUE)
    \/ \E r \in Requests : Destroy(r)
    \/ OnTimer(TRUE)

SpecWindow == InitWindow /\ [][NextWindow]_vars

\* Every configuration, a host that may also deliver trailers after the end
\* of the stream.
NextMisuse ==
    \/ Next
    \/ \E r \in Requests : TrailersAfterEnd(r)

SpecMisuse == Init /\ [][NextMisuse]_vars

\* The cluster evaluator on every threshold list and registry: no cache, every
\* matched probe handled, one request at a time, the forced-failure flag never
\* set.
InitClusters == InitWith({FALSE}, {FALSE}, AllClusterConfigs)

NextClusters ==
    \/ DecodeHeaders(1, FALSE)
    \/ DecodeData(1)
    \/ DecodeTrailers(1)
    \/ EncodeHeaders(1, FALSE)
    \/ Destroy(1)

SpecClusters == InitClusters /\ [][NextClusters]_vars

\* A matched probe arrives: decodeHeaders on headers that match.
ProbeArrives(r) == DecodeHeaders(r, FALSE) /\ filters'[r].matches

\* Only matched probes arrive: other requests do not touch the cache.
NextLive ==
    \/ \E r \in Requests : ProbeArrives(r)
    \/ \E r \in Requests : DecodeData(r)
    \/ \E r \in Requests : DecodeTrailers(r)
    \/ \E r \in Requests : EncodeHeaders(r, FALSE)
    \/ \E r \in Requests : Destroy(r)
    \/ OnTimer(FALSE)

\* The event loop keeps running: the armed timer fires, matched probes keep
\* arriving while a request slot is free, and the host delivers the rest of
\* every request (body, trailers, the upstream's response, stream teardown).
FairLive ==
    /\ WF_vars(OnTimer(FALSE))
    /\ WF_vars(\E r \in Requests : ProbeArrives(r))
    /\ \A r \in Requests :
          /\ WF_vars(DecodeData(r))
          /\ WF_vars(DecodeTrailers(r))
          /\ WF_vars(EncodeHeaders(r, FALSE))
          /\ WF_vars(Destroy(r))

\* A cache, pass-through mode on, the forced-failure flag never set, and a
\* fair event loop.
SpecLive == InitWindow /\ [][NextLive]_vars /\ FairLive

\* ------------------------------------------------------------- properties

\* The request of slot r is live in this state and in the next one.
SameRequest(r) == filters[r].pc # "idle" /\ filters'[r].pc # "idle"

\* This step is decodeHeaders of a new request in slot r.
HeadersStep(r) == filters[r].pc = "idle" /\ filters'[r].pc # "idle"

\* This step calls onComplete for the request of slot r.
CompleteStep(r) == filters'[r].pc # "idle" /\ filters'[r].completed > filters[r].completed

\* The cache's verdict state: stored status, stored degraded flag, freshness.
CacheState(c) == <<c.last_response_code_, c.last_response_degraded_, c.use_cached_response_>>

\* The last hook call was made on the request that slot out.r still holds.
OutLive == out.r \in Requests /\ filters[out.r].pc # "idle"

\* C1: after decodeHeaders returns, handling_ is true iff the headers matched
\* and, at that moment, pass-through mode was off, or the forced-failure flag
\* was set, or a cache was configured and its should-use-cache predicate (fresh
\* and a verdict stored) was true; otherwise decodeHeaders returns Continue;
\* and no later hook of the request changes handling_.
C1_HandlingDecision ==
    [][\A r \in Requests :
         /\ HeadersStep(r) =>
              /\ filters'[r].handling_ =
                   (filters'[r].matches
                      /\ (\/ ~pass_through_mode_
                          \/ healthCheckFailed
                          \/ (cache_manager_ /\ cache.use_cached_response_
                                /\ cache.last_response_code_ # NoCode)))
              /\ out'.hook = "decodeHeaders" /\ out'.r = r
              /\ ~filters'[r].handling_ => out'.ret = "Continue"
         /\ SameRequest(r) => filters'[r].handling_ = filters[r].handling_]_vars

\* C1 witness: a probe was handled only because the cache should be used.
C1_Witness ==
    /\ out.hook = "decodeHeaders"
    /\ OutLive
    /\ filters[out.r].handling_
    /\ pass_through_mode_ /\ ~healthCheckFailed /\ cache_manager_

\* C2: on a handled request, with the hooks called in order, onComplete has
\* not run while the request is still open and has run exactly once from the
\* first end-of-request event on (end_stream on headers, end_stream on a body
\* chunk, or trailers); each run sends exactly one local reply, and an unhandled
\* request never completes.
C2_CompletesOnce ==
    /\ [](\A r \in Requests :
            /\ filters[r].handling_ /\ filters[r].pc = "open" => filters[r].completed = 0
            /\ filters[r].handling_ /\ filters[r].pc \in {"ended", "done"}
                   => filters[r].completed = 1
            /\ ~filters[r].handling_ => filters[r].completed = 0)
    /\ [][\A r \in Requests :
            CompleteStep(r) =>
               /\ out'.reply.sent /\ out'.r = r
               /\ out'.end_stream
               /\ filters'[r].completed = filters[r].completed + 1
               /\ filters'[r].pc = "done"]_vars

\* C2 witness: a handled request completed at the end of its body.
C2_Witness ==
    /\ out.hook = "decodeData" /\ out.end_stream
    /\ out.reply.sent
    /\ OutLive /\ filters[out.r].completed = 1

\* C3: while the forced-failure flag is set, a matched probe is always handled
\* locally and the reply sent for it has status 503, in every configuration,
\* whatever the cache holds and whatever the cluster evaluator would return.
C3_ForcedFailure ==
    /\ (out.hook = "decodeHeaders" /\ OutLive /\ healthCheckFailed /\ filters[out.r].matches)
          => filters[out.r].handling_ /\ out.ret = "StopIteration"
    /\ (out.reply.sent /\ healthCheckFailed)
          => /\ out.reply.code = ServiceUnavailable
             /\ out.hout.status = ServiceUnavailable
             /\ ~out.reply.degraded

\* C3 witness: a 503 was sent under forced failure with a cache configured and
\* pass-through mode on.
C3_Witness ==
    /\ out.reply.sent /\ healthCheckFailed
    /\ cache_manager_ /\ pass_through_mode_
    /\ out.reply.code = ServiceUnavailable

\* C4 as stated: once a forwarded probe's upstream response has been stored,
\* every matched probe decoded before the next timer fire is handled locally
\* (not forwarded) and answered with exactly that stored verdict (stated for
\* the reply of a probe that ends with its headers, where decoding and
\* answering are one step); and the first matched probe decoded after that
\* timer fire is forwarded upstream.
C4_Original ==
    [][\A r \in Requests :
         /\ (HeadersStep(r) /\ filters'[r].matches /\ win.open) =>
               /\ filters'[r].handling_ /\ out'.ret = "StopIteration"
               /\ out'.reply.sent =>
                     /\ out'.reply.code = win.code
                     /\ out'.reply.degraded = win.degraded
         /\ (HeadersStep(r) /\ filters'[r].matches /\ win.fired) =>
               ~filters'[r].handling_ /\ out'.ret = "Continue"]_vars

\* C4 amended: with a cache, pass-through mode on and the flag never set, once
\* a forwarded probe's upstream response has been stored, every matched probe
\* decoded before the next timer fire is handled locally and not forwarded; a
\* handled probe is answered with the verdict the cache holds when it
\* completes, and that verdict changes only when the upstream response of a
\* forwarded probe is encoded; a timer fire leaves the cache not fresh, the
\* cache becomes fresh again only when a probe's response (upstream or local)
\* is encoded, and the first matched probe decoded after the fire is forwarded
\* upstream unless that has happened.
C4_Window ==
    /\ [](out.hook = "onTimer" => ~cache.use_cached_response_)
    /\ [][/\ \A r \in Requests :
               /\ (HeadersStep(r) /\ filters'[r].matches /\ win.open) =>
                     filters'[r].handling_ /\ out'.ret = "StopIteration"
               /\ CompleteStep(r) =>
                     /\ out'.reply.code = cache.last_response_code_
                     /\ out'.reply.degraded = cache.last_response_degraded_
               /\ (HeadersStep(r) /\ filters'[r].matches /\ win.fired
                     /\ ~cache.use_cached_response_) =>
                     ~filters'[r].handling_ /\ out'.ret = "Continue"
          /\ (\/ cache'.last_response_code_ # cache.last_response_code_
              \/ cache'.last_response_degraded_ # cache.last_response_degraded_)
                => /\ out'.hook = "encodeHeaders"
                   /\ filters[out'.r].health_check_request_
                   /\ ~filters[out'.r].handling_
          /\ (~cache.use_cached_response_ /\ cache'.use_cached_response_)
                => out'.hook = "encodeHeaders" \/ out'.reply.sent]_vars

\* C4 witness: inside an open window a probe was answered locally with the
\* verdict that opened the window.
C4_Witness ==
    /\ win.open /\ out.reply.sent
    /\ out.reply.code = win.code /\ out.reply.degraded = win.degraded
    /\ out.hook = "decodeData"

\* C5: a request whose headers do not match is never marked as a health
\* check, never handled and never completed, under any sequence of hook calls;
\* every decode hook returns Continue for it, and encodeHeaders leaves its
\* response's status, cluster header and degraded header as they were.
C5_NonProbeUntouched ==
    /\ \A r \in Requests :
          (filters[r].pc # "idle" /\ ~filters[r].matches) =>
             /\ ~filters[r].health_check_request_
             /\ ~filters[r].handling_
             /\ filters[r].completed = 0
             /\ ~filters[r].response_flag
    /\ (OutLive /\ ~filters[out.r].matches) =>
          /\ ~out.reply.sent
          /\ out.ret = "Continue"
          /\ out.hook = "encodeHeaders" =>
                /\ out.hout.status = out.hin.status
                /\ out.hout.cluster = out.hin.cluster
                /\ out.hout.degraded = out.hin.degraded

\* C5 witness: a non-matching request's response was encoded while the flag
\* was set and the cache was fresh.
C5_Witness ==
    /\ out.hook = "encodeHeaders" /\ OutLive
    /\ ~filters[out.r].matches
    /\ healthCheckFailed /\ cache_manager_ /\ cache.use_cached_response_

\* A threshold passes iff its cluster resolves and either the cluster is empty
\* and the minimum is 0, or the cluster is not empty and
\* (healthy + degraded) * 100 >= total * minimum.
ThresholdPasses(th, reg) ==
    /\ reg[th[1]].exists
    /\ \/ reg[th[1]].membership_total_ = 0 /\ th[2] = 0
       \/ /\ reg[th[1]].membership_total_ > 0
          /\ (reg[th[1]].membership_healthy_ + reg[th[1]].membership_degraded_) * 100
                >= reg[th[1]].membership_total_ * th[2]

\* The thresholds that do not pass, by position.
FailingThresholds ==
    {i \in 1 .. Len(cluster_min_healthy_percentages_) :
        ~ThresholdPasses(cluster_min_healthy_percentages_[i], clusters)}

\* C6: on the cluster path (no forced failure, no cache, thresholds present)
\* the reply is 200 iff every threshold passes and 503 otherwise, the loop
\* stops at the first failing threshold in configured order, and the reply
\* never carries the degraded marker.
C6_ClusterVerdict ==
    (out.reply.sent /\ ~healthCheckFailed /\ ~cache_manager_
       /\ Len(cluster_min_healthy_percentages_) > 0) =>
        /\ out.reply.code = IF FailingThresholds = {} THEN OK ELSE ServiceUnavailable
        /\ ~out.reply.degraded /\ ~out.hout.degraded
        /\ out.reply.lookups =
              IF FailingThresholds = {} THEN Len(cluster_min_healthy_percentages_)
              ELSE CHOOSE i \in FailingThresholds : \A j \in FailingThresholds : i <= j

\* C6 witness: a 200 over two thresholds, one of them met with equality.
C6_Witness ==
    /\ out.reply.sent /\ out.reply.code = OK
    /\ Len(cluster_min_healthy_percentages_) = 2
    /\ \E i \in 1 .. 2 :
          LET th == cluster_min_healthy_percentages_[i] IN
          /\ th[2] > 0
          /\ clusters[th[1]].membership_total_ > 0
          /\ (clusters[th[1]].membership_healthy_ + clusters[th[1]].membership_degraded_) * 100
                = clusters[th[1]].membership_total_ * th[2]

\* C7: with a cache, encoding a forwarded probe's upstream response stores its
\* status together with whether it carries the degraded marker; and a reply
\* served from the cache carries the degraded marker iff the stored verdict is
\* degraded.
C7_DegradedPropagation ==
    /\ []((out.hook = "encodeHeaders" /\ OutLive /\ cache_manager_
             /\ filters[out.r].health_check_request_) =>
            /\ cache.last_response_code_ = out.hin.status
            /\ cache.last_response_degraded_ = out.hin.degraded)
    /\ [][\A r \in Requests :
            (CompleteStep(r) /\ cache_manager_ /\ ~healthCheckFailed) =>
               /\ out'.hout.degraded = cache.last_response_degraded_
               /\ out'.hout.status = cache.last_response_code_]_vars

\* C7 witness: a reply served from the cache carried the degraded marker.
C7_Witness ==
    /\ out.reply.sent /\ out.hout.degraded
    /\ cache_manager_ /\ pass_through_mode_ /\ ~healthCheckFailed

\* C8 as stated: every local reply carries status 200 or 503.
C8_Original ==
    out.reply.sent => out.reply.code \in {OK, ServiceUnavailable}

\* C8 amended: every local reply carries status 503 under forced failure;
\* otherwise, with a cache, the status stored in the cache, replayed as it is;
\* otherwise 200 or 503.  encodeHeaders leaves that status unchanged.
C8_ReplyStatus ==
    [][\A r \in Requests :
         CompleteStep(r) =>
            /\ out'.hout.status = out'.reply.code
            /\ IF healthCheckFailed THEN out'.reply.code = ServiceUnavailable
               ELSE IF cache_manager_ THEN out'.reply.code = cache.last_response_code_
               ELSE out'.reply.code \in {OK, ServiceUnavailable}]_vars

\* C8 witness: a reply served from the cache replayed another status.
C8_Witness ==
    /\ out.reply.sent /\ cache_manager_ /\ ~healthCheckFailed
    /\ out.reply.code \notin {OK, ServiceUnavailable, NoCode}

\* C9: onComplete never sends a second reply for a request: a second
\* invocation aborts.
C9_ReentrantAborts ==
    \A r \in Requests : filters[r].completed <= 1

\* C10: encodeHeaders adds the immediate-failure header to the response of a
\* request that is not a health check exactly when the forced-failure flag is
\* set, leaving the status as it was; a health check's response, upstream or
\* local, never gets it.
C10_ImmediateFail ==
    /\ (out.hook = "encodeHeaders" /\ OutLive /\ ~filters[out.r].health_check_request_) =>
          /\ out.hout.immediateFail = healthCheckFailed
          /\ out.hout.status = out.hin.status
    /\ (out.hook = "encodeHeaders" /\ OutLive /\ filters[out.r].health_check_request_) =>
          ~out.hout.immediateFail
    /\ out.reply.sent => ~out.hout.immediateFail

\* C10 witness: a non-probe response got the immediate-failure header.
C10_Witness ==
    /\ out.hook = "encodeHeaders" /\ OutLive
    /\ ~filters[out.r].health_check_request_
    /\ healthCheckFailed /\ out.hout.immediateFail
    /\ out.hout.status = ServiceUnavailable

\* C11: with no cache, no cluster thresholds and the forced-failure flag not
\* set, every matched probe the filter handles is answered with status 200, an
\* empty body and no degraded marker, and the failed-health-check response
\* flag is not set on its stream.
C11_DefaultVerdict ==
    /\ (out.reply.sent /\ ~cache_manager_ /\ ~healthCheckFailed
          /\ Len(cluster_min_healthy_percentages_) = 0) =>
          /\ out.reply.code = OK /\ out.hout.status = OK
          /\ out.reply.body = ""
          /\ ~out.reply.degraded /\ ~out.hout.degraded
          /\ OutLive => ~filters[out.r].response_flag
    /\ \A r \in Requests :
          (filters[r].pc # "idle" /\ filters[r].matches /\ ~pass_through_mode_
             /\ filters[r].pc \in {"ended", "done"}) => filters[r].completed = 1

\* C11 witness: the default verdict was sent for a probe with a body.
C11_Witness ==
    /\ out.reply.sent /\ out.hook = "decodeData"
    /\ ~cache_manager_ /\ ~healthCheckFailed /\ ~pass_through_mode_
    /\ Len(cluster_min_healthy_percentages_) = 0
    /\ OutLive /\ filters[out.r].matches
    /\ out.reply.code = OK /\ out.reply.body = ""

\* C12: in every reachable state of a request handling_ implies
\* health_check_request_, and no hook of a request sets either flag back to
\* false once it is true.
C12_FlagsMonotonic ==
    /\ [](\A r \in Requests : filters[r].handling_ => filters[r].health_check_request_)
    /\ [][\A r \in Requests :
            SameRequest(r) =>
               /\ filters[r].handling_ => filters'[r].handling_
               /\ filters[r].health_check_request_ => filters'[r].health_check_request_]_vars

\* C12 witness: trailers were delivered to a handled probe after the hook that
\* committed to handling it.
C12_Witness ==
    /\ out.hook = "decodeTrailers" /\ OutLive
    /\ filters[out.r].handling_ /\ filters[out.r].health_check_request_
    /\ filters[out.r].completed = 1

\* C13: right after construction the cache is not fresh and its timer is armed;
\* every timer fire leaves the cache not fresh and the timer armed again, so
\* the timer is armed in every reachable state; and, with pass-through mode on
\* and the flag not set, the first matched probe after construction is
\* forwarded upstream, not answered from the cache: until a hook of a probe has
\* run the cache is as constructed, and a matched probe decoded while it is so
\* is not handled.
C13_Timer ==
    /\ []((out = NoOut /\ cache_manager_) =>
             ~cache.use_cached_response_ /\ cache.timer_enabled)
    /\ [](cache_manager_ => cache.timer_enabled)
    /\ [](out.hook = "onTimer" => ~cache.use_cached_response_ /\ cache.timer_enabled)
    /\ [][/\ cache' # cache =>
               \/ out'.hook = "onTimer"
               \/ out'.r \in Requests /\ filters'[out'.r].health_check_request_
          /\ \A r \in Requests :
               (HeadersStep(r) /\ filters'[r].matches /\ cache_manager_
                  /\ pass_through_mode_ /\ ~healthCheckFailed
                  /\ cache = NewCacheManager) =>
                  /\ ~filters'[r].handling_
                  /\ out'.ret = "Continue" /\ ~out'.reply.sent]_vars

\* C13 witness: a matched probe was forwarded while the cache was still as
\* constructed, the timer armed.
C13_Witness ==
    /\ out.hook = "decodeHeaders" /\ OutLive
    /\ filters[out.r].matches /\ ~filters[out.r].handling_
    /\ cache_manager_ /\ pass_through_mode_ /\ ~healthCheckFailed
    /\ cache = NewCacheManager /\ cache.timer_enabled

\* C14: the cache's use_cached_response_ becomes true only in encodeHeaders of
\* the real upstream's response to a forwarded probe; a step that sends a local
\* reply (served from the cache, or the 503 of a forced failure) neither makes
\* it true nor changes the stored status and degraded flag.
C14_OnlyUpstreamArms ==
    [][/\ (~cache.use_cached_response_ /\ cache'.use_cached_response_) =>
             /\ out'.hook = "encodeHeaders" /\ ~out'.reply.sent
             /\ filters[out'.r].health_check_request_ /\ ~filters[out'.r].handling_
       /\ out'.reply.sent =>
             /\ cache'.use_cached_response_ => cache.use_cached_response_
             /\ cache'.last_response_code_ = cache.last_response_code_
             /\ cache'.last_response_degraded_ = cache.last_response_degraded_]_vars

\* C15: on a handled request decodeHeaders returns StopIteration, every
\* decodeData returns StopIterationNoBuffer and decodeTrailers returns
\* StopIteration, so nothing is forwarded and nothing is buffered; on a request
\* that is not handled each of them returns Continue; and encodeHeaders returns
\* Continue for every response, upstream or local.
C15_ReturnValues ==
    /\ OutLive =>
          /\ out.hook = "decodeHeaders" =>
                out.ret = IF filters[out.r].handling_ THEN "StopIteration" ELSE "Continue"
          /\ out.hook = "decodeData" =>
                out.ret = IF filters[out.r].handling_ THEN "StopIterationNoBuffer"
                          ELSE "Continue"
          /\ out.hook = "decodeTrailers" =>
                out.ret = IF filters[out.r].handling_ THEN "StopIteration" ELSE "Continue"
    /\ out.hook = "encodeHeaders" => out.ret = "Continue"
    /\ out.reply.sent => out.enc = "Continue"

\* C15 witness: a body chunk that does not end a handled probe was stopped
\* without buffering.
C15_Witness ==
    /\ out.hook = "decodeData" /\ ~out.end_stream /\ OutLive
    /\ filters[out.r].handling_ /\ filters[out.r].pc = "open"
    /\ out.ret = "StopIterationNoBuffer"

\* C16: for every local reply the FailedLocalHealthCheck response flag is set
\* on the request's stream info iff the reply's status is not a 2xx, whichever
\* path produced the verdict (forced failure, cache, cluster thresholds,
\* default), and it is already set when the reply is sent.
C16_ResponseFlag ==
    (out.reply.sent /\ OutLive) =>
        /\ filters[out.r].response_flag <=> out.reply.code \notin 200 .. 299
        /\ out.reply.flagged = filters[out.r].response_flag

\* C16 witness: the cluster thresholds produced a 503 and the flag was set
\* without a forced failure.
C16_Witness ==
    /\ out.reply.sent /\ OutLive
    /\ ~healthCheckFailed /\ ~cache_manager_
    /\ Len(cluster_min_healthy_percentages_) > 0
    /\ out.reply.code = ServiceUnavailable
    /\ filters[out.r].response_flag /\ out.reply.flagged

\* C17: the cache's stored status, stored degraded flag and freshness change
\* only in a timer fire and in encodeHeaders of a recognized probe; a
\* decodeHeaders, decodeData or decodeTrailers call, the onComplete it may
\* make included, leaves them unchanged for every request, as does every hook
\* of a request that is not a probe; and a timer fire leaves the stored status
\* and degraded flag unchanged.
C17_CacheFrame ==
    [][/\ CacheState(cache') # CacheState(cache) =>
             \/ out'.hook = "onTimer"
             \/ out'.hook = "encodeHeaders" /\ filters[out'.r].health_check_request_
       /\ out'.hook \in {"decodeHeaders", "decodeData", "decodeTrailers"} =>
             CacheState(cache') = CacheState(cache)
       /\ (out'.r \in Requests /\ ~filters'[out'.r].health_check_request_) =>
             CacheState(cache') = CacheState(cache)
       /\ out'.hook = "onTimer" =>
             /\ cache'.last_response_code_ = cache.last_response_code_
             /\ cache'.last_response_degraded_ = cache.last_response_degraded_]_vars

\* C18: whatever the interleaving of timer fires and requests in flight, a
\* probe decoded after a timer fire is handled from the cache only if the
\* upstream response of a forwarded probe has been encoded since that fire; a
\* handled request that committed before the fire and completes after it does
\* not make the expired verdict usable again.
C18_ExpiredStaysExpired ==
    /\ [](~win.open => ~cache.use_cached_response_)
    /\ [][\A r \in Requests :
            (HeadersStep(r) /\ filters'[r].matches /\ filters'[r].handling_) => win.open]_vars

\* C19: whenever onComplete takes its verdict from the cache (a cache is
\* configured and the forced-failure flag is not set at completion), the
\* cache's should-use-cache predicate was true when the request's headers were
\* decoded, so a stored verdict exists; also when the flag changed between
\* decodeHeaders and completion, and when pass-through mode is off.
C19_CommittedOnFreshCache ==
    [][\A r \in Requests :
         (CompleteStep(r) /\ cache_manager_ /\ ~healthCheckFailed) =>
            /\ filters'[r].fresh_at_decode
            /\ cache.last_response_code_ # NoCode]_vars

\* C20: with a cache, pass-through mode on and the flag never set, if the
\* timer keeps firing and matched probes keep arriving and completing (weak
\* fairness on the timer, on probe arrival and on hook delivery), matched
\* probes are forwarded upstream infinitely often.
C20_ForwardedInfinitelyOften ==
    []<><<\E r \in Requests :
            HeadersStep(r) /\ filters'[r].matches /\ ~filters'[r].handling_>>_vars

=============================================================================
